---- MODULE Spec2Model ----
(***************************************************************************)
(* Model of the self-update subsystem of Video-Downloader-Pro:             *)
(*   - UpdateService.checkForUpdates   (src/src/services/update_service.py)*)
(*   - UpdateService._downloadTask / _launchUpdater                        *)
(*   - performUpdate of the separate Updater executable (src/updater.py)   *)
(* Strings are sequences of one-character strings, so that parsing and     *)
(* comparing version strings is computed, not assumed.                     *)
(***************************************************************************)
EXTENDS Integers, Sequences, FiniteSets, TLC

VARIABLES
    \* ---- checkForUpdates (one call) ----
    ckpc,            \* position inside checkForUpdates
    currentVersion,  \* the argument: the running build's version string
    response,        \* what requests.get will produce for the manifest URL
    latestVersion,   \* data.get("latest_version")
    downloadUrl,     \* data.get("download_url")
    exc,             \* the exception in flight / propagated ("none" if none)
    result,          \* the returned triple (isAvailable, version, url)
    \* ---- _downloadTask (the Primary's background thread) ----
    pc,              \* position inside _downloadTask / _launchUpdater
    frozen,          \* getattr(sys, 'frozen', False)
    updaterAt,       \* the searched locations at which updater.exe exists
    updaterPath,     \* the location found ("None" if none)
    safeUpdater,     \* where the temp copy updater_run.exe was copied from ("None": no copy)
    progressCallback, completedCallback, errorCallback,   \* TRUE: supplied, FALSE: None
    newExePath,      \* "None" or "set" (currentExePath + ".new")
    body,            \* the chunks (their lengths) of the binary the server holds
    contentLength,   \* the content-length header: a number, 0 if absent, -1 if malformed
    totalSize,       \* int(response.headers.get('content-length', 0))
    downloaded,      \* bytes written so far
    sent,            \* chunks of body delivered so far
    stream,          \* "idle", "reading", "ended" (iterator exhausted), "broken" (it raised)
    fileOpen,        \* the staging file is open for writing
    requests,        \* HTTP requests made for the download url
    \* ---- the file system ----
    staging,         \* the file at newExePath
    oldExe,          \* the file at oldExePath
    removeFailed,    \* the last os.remove of the staging file raised
    \* ---- what the callbacks saw ----
    progressLog,     \* the fractions passed to progressCallback, in order
    completeCalls,   \* calls of completedCallback
    errorCalls,      \* calls of errorCallback
    errorMsg,        \* the kind of the last message passed to errorCallback
    stagingAtError,  \* the staging file existed when errorCallback was last called
    \* ---- the processes ----
    primaryAlive,    \* the Primary process is running
    popenCalls,      \* calls of subprocess.Popen
    launched,        \* what the Updater process was started from ("None": not started)
    extLock,         \* something other than the Primary denies deleting oldExe
    \* ---- performUpdate (the Updater's background thread) ----
    upc,             \* position inside performUpdate
    attempts,        \* iterations of the wait loop that ended in PermissionError
    relaunched,      \* os.startfile(oldExe) succeeded
    closed,          \* closeUpdater was called: the Updater's window is destroyed
    argc,            \* positional arguments the Updater was started with (len(sys.argv) - 1)
    exitCode,        \* the Updater's exit code (-1: not started or still running)
    lastDelete,      \* the outcome of the last iteration of the wait loop ("none" before)
    moveCalls,       \* calls of shutil.move
    startfileCalls,  \* calls of os.startfile
    timer,           \* pending root.after(2000, _startUpdateCheck) callbacks
    checkThreads,    \* _performUpdateCheck threads started
    notifyQueue,     \* pending root.after(0, _showUpdateNotification) callbacks
    updateBtn,       \* the update button: "absent", "normal" or "disabled"
    tasksStarted,    \* _downloadTask threads started from the window
    \* ---- DownloadController and HistoryService ----
    isDownloading,   \* DownloadController.isDownloading
    videoInfo,       \* DownloadController.videoInfo: "None" or the url whose info it holds
    history,         \* HistoryService.history, the list in memory
    historyFile,     \* the content of history.json
    uiop,            \* the handler the UI thread is running
    cpc,             \* per caller: position inside startDownload
    cfg,             \* per caller: the DownloadConfig passed to startDownload
    fpc,             \* per fetch thread: position inside fetchThread
    furl,            \* per fetch thread: the url being fetched
    dpc,             \* per caller: position of the download thread its call started
    dloc,            \* per caller: the locals of that download thread
    calls,           \* per caller: calls of onSuccess, onError, onComplete
    spc,             \* per thread: position inside a HistoryService operation
    sbuf,            \* per thread: what json.dump has written to its open file object
    histOps,         \* removeEntry and clearHistory calls made from the window
    downloadBtn,     \* the download button is enabled
    enableQueue      \* root.after(0, enable the download button) callbacks pending

ckvars == <<ckpc, currentVersion, response, latestVersion, downloadUrl, exc, result>>

envvars == <<frozen, updaterAt, progressCallback, completedCallback, errorCallback,
             body, contentLength>>

dlvars == <<pc, updaterPath, safeUpdater, newExePath, totalSize, downloaded, sent, stream,
            fileOpen, requests, removeFailed>>

cbvars == <<progressLog, completeCalls, errorCalls, errorMsg, stagingAtError>>

upvars == <<upc, attempts, relaunched, closed, argc, exitCode, lastDelete, moveCalls,
            startfileCalls>>

guivars == <<timer, checkThreads, notifyQueue, updateBtn, tasksStarted>>

ctlvars == <<isDownloading, videoInfo, history, historyFile, uiop, cpc, cfg, fpc, furl,
             dpc, dloc, calls, spc, sbuf, histOps, downloadBtn, enableQueue>>

\* the self-update subsystem
updvars == <<ckvars, guivars, envvars, dlvars, cbvars, upvars, staging, oldExe, primaryAlive,
             popenCalls, launched, extLock>>

vars == <<updvars, ctlvars>>

-----------------------------------------------------------------------------
(* Bounds of the model *)
MaxMajor == 1
MaxMinor == 10
MaxPatch == 1
\* the longest binary, in chunks
MaxChunks == 2
\* the most positional arguments the Updater is started with
MaxArgs == 3

(* Program constants *)
\* iter_content(chunk_size=8192)
ChunkSize == 8192
\* for _ in range(15)
MaxAttempts == 15
\* len(sys.argv) != 3: the script name and two paths
ArgvLen == 3

-----------------------------------------------------------------------------
(* Strings *)

\* Python's None for a str-valued slot (a one-element sequence no string equals)
None == <<"<None>">>

DigitChars == <<"0", "1", "2", "3", "4", "5", "6", "7", "8", "9">>

IsDigit(c) == \E i \in 1..10 : DigitChars[i] = c

DigitVal(c) == (CHOOSE i \in 1..10 : DigitChars[i] = c) - 1

\* str(n) for a natural number n
RECURSIVE NatToStr(_)
NatToStr(n) ==
    IF n < 10 THEN <<DigitChars[n + 1]>>
    ELSE NatToStr(n \div 10) \o <<DigitChars[(n % 10) + 1]>>

\* "major.minor.patch"
FormatVersion(t) == NatToStr(t[1]) \o <<".">> \o NatToStr(t[2]) \o <<".">> \o NatToStr(t[3])

\* ord(c) for the characters the model uses: '.' < digits < letters
CharCode(c) ==
    IF c = "." THEN 46
    ELSE IF IsDigit(c) THEN 48 + DigitVal(c)
    ELSE 97

\* Python's  a > b  on str: lexicographic by code point
RECURSIVE StrGreater(_, _)
StrGreater(a, b) ==
    IF a = <<>> THEN FALSE
    ELSE IF b = <<>> THEN TRUE
    ELSE IF CharCode(Head(a)) # CharCode(Head(b)) THEN CharCode(Head(a)) > CharCode(Head(b))
    ELSE StrGreater(Tail(a), Tail(b))

\* s.split(".")
RECURSIVE SplitDots(_, _, _)
SplitDots(s, cur, acc) ==
    IF s = <<>> THEN Append(acc, cur)
    ELSE IF Head(s) = "." THEN SplitDots(Tail(s), <<>>, Append(acc, cur))
    ELSE SplitDots(Tail(s), Append(cur, Head(s)), acc)

\* int(digits); the caller checks that every character is a digit
RECURSIVE ParseInt(_, _)
ParseInt(s, acc) ==
    IF s = <<>> THEN acc ELSE ParseInt(Tail(s), acc * 10 + DigitVal(Head(s)))

-----------------------------------------------------------------------------
(* packaging.version, restricted to the release segment N(.N)*              *)

IsNumeral(s) == s # <<>> /\ \A i \in 1..Len(s) : IsDigit(s[i])

\* version.parse(s) succeeds (otherwise it raises InvalidVersion, as packaging
\* does since release 22; a None argument raises TypeError, an Exception too)
VersionValid(s) ==
    /\ s # None
    /\ \A i \in 1..Len(SplitDots(s, <<>>, <<>>)) : IsNumeral(SplitDots(s, <<>>, <<>>)[i])

\* Version.release: the tuple of integers
VersionRelease(s) ==
    [i \in 1..Len(SplitDots(s, <<>>, <<>>)) |-> ParseInt(SplitDots(s, <<>>, <<>>)[i], 0)]

\* _cmpkey drops the trailing zeros of the release before comparing
RECURSIVE StripTrailingZeros(_)
StripTrailingZeros(r) ==
    IF r # <<>> /\ r[Len(r)] = 0 THEN StripTrailingZeros(SubSeq(r, 1, Len(r) - 1)) ELSE r

\* Python's tuple  x > y
RECURSIVE TupleGreater(_, _)
TupleGreater(x, y) ==
    IF x = <<>> THEN FALSE
    ELSE IF y = <<>> THEN TRUE
    ELSE IF Head(x) # Head(y) THEN Head(x) > Head(y)
    ELSE TupleGreater(Tail(x), Tail(y))

\* A plausible slip: the two version strings compared as strings
LexicalGreater(latest, current) == StrGreater(latest, current)

\* version.parse(latest) > version.parse(current), both valid
VersionGreater(latest, current) ==
    TupleGreater(StripTrailingZeros(VersionRelease(latest)),
                 StripTrailingZeros(VersionRelease(current)))

-----------------------------------------------------------------------------
(* Inputs of checkForUpdates *)

Triples == (0..MaxMajor) \X (0..MaxMinor) \X (0..MaxPatch)

\* "major.minor.patch" strings
VersionStrings == {FormatVersion(t) : t \in Triples}

\* strings version.parse rejects: "abc", "1..0", ""
InvalidVersionStrings == {<<"a", "b", "c">>, <<"1", ".", ".", "0">>, <<>>}

Url == <<"u">>

\* What the GET of VERSION_URL produces: a transport failure, or a response
\* with a status code and a body (a JSON object, a JSON array, or not JSON).
ManifestBodies ==
    {[json |-> j, latest_version |-> None, download_url |-> None] : j \in {"malformed", "array"}}
    \cup {[json |-> "object", latest_version |-> l, download_url |-> u] :
              l \in VersionStrings \cup InvalidVersionStrings \cup {None}, u \in {Url, None}}

Responses ==
    {[net |-> n, status |-> 0, body |-> [json |-> "malformed", latest_version |-> None, download_url |-> None]] :
         n \in {"Timeout", "ConnectionError"}}
    \cup {[net |-> "ok", status |-> 200, body |-> b] : b \in ManifestBodies}
    \cup {[net |-> "ok", status |-> st, body |-> [json |-> "malformed", latest_version |-> None, download_url |-> None]] :
              st \in {404, 500}}

\* (False, None, None)
NotAvailable == [available |-> FALSE, version |-> None, url |-> None]

\* bool(x) for x a str or None
Truthy(s) == s # None /\ s # <<>>

-----------------------------------------------------------------------------
(* Files, and the inputs of the download task *)

\* A file: whether it exists, where its content comes from ("old": the installed
\* binary, "stale": left by an earlier run, "download": written by this task),
\* and how many bytes of this download's body it holds.
NoFile == [exists |-> FALSE, origin |-> "none", bytes |-> 0]
OldBinary == [exists |-> TRUE, origin |-> "old", bytes |-> 0]
StaleFile == [exists |-> TRUE, origin |-> "stale", bytes |-> 0]

RECURSIVE SeqSum(_)
SeqSum(q) == IF q = <<>> THEN 0 ELSE Head(q) + SeqSum(Tail(q))

\* iter_content(chunk_size=8192) yields chunks of 1..8192 bytes
ChunkLens == {1, ChunkSize}

Bodies == UNION {[1..n -> ChunkLens] : n \in 0..MaxChunks}

\* values of the content-length header: absent (0), malformed (-1), or a size
ContentLengths == {0, -1} \cup {SeqSum(b) : b \in Bodies}

\* (progressCallback, completedCallback, errorCallback) as supplied: all three,
\* the progress callback alone (the call in gui.py), or none
CallbackChoices == {<<TRUE, TRUE, TRUE>>, <<TRUE, FALSE, FALSE>>, <<FALSE, FALSE, FALSE>>}

\* the state of the download task and of the Updater before downloadAndInstall
DownloadIdle ==
    /\ pc = "idle"
    /\ frozen = FALSE /\ updaterAt = {} /\ updaterPath = "None" /\ safeUpdater = "None"
    /\ progressCallback = FALSE /\ completedCallback = FALSE /\ errorCallback = FALSE
    /\ newExePath = "None"
    /\ body = <<>> /\ contentLength = 0 /\ totalSize = 0 /\ downloaded = 0 /\ sent = 0
    /\ stream = "idle" /\ fileOpen = FALSE /\ requests = 0
    /\ staging = NoFile /\ oldExe = OldBinary /\ removeFailed = FALSE
    /\ progressLog = <<>> /\ completeCalls = 0 /\ errorCalls = 0 /\ errorMsg = "none"
    /\ stagingAtError = FALSE
    /\ primaryAlive = TRUE /\ popenCalls = 0 /\ launched = "None" /\ extLock = FALSE
    /\ upc = "none" /\ attempts = 0 /\ relaunched = FALSE /\ closed = FALSE
    /\ argc = 0 /\ exitCode = -1 /\ lastDelete = "none" /\ moveCalls = 0 /\ startfileCalls = 0

\* the re-downloads asked for in the history window, in the order asked
Redownloads == {"redownload1", "redownload2"}

\* The calls of startDownload: from the download button, on the UI thread,
\* and from a re-download, on the thread that fetched the video info.  A
\* download thread is named by the call that started it.
Callers == {"button"} \cup Redownloads

\* the fetch threads: of the fetch button, and of the re-downloads
Fetchers == {"fetch"} \cup Redownloads

\* the threads inside HistoryService: the UI thread and the download threads
HistThreads == {"ui"} \cup Callers

VideoUrls == {"a", "b"}

PlaylistUrl == "p"

Urls == VideoUrls \cup {PlaylistUrl}

\* what getVideoInfo returns for a url: a VideoInfo, or a PlaylistInfo with
\* its videos
InfoOf(u) ==
    IF u = PlaylistUrl
    THEN [kind |-> "playlist", title |-> <<"title", u>>, videos |-> <<"a", "b">>]
    ELSE [kind |-> "video", title |-> <<"title", u>>, videos |-> <<>>]

\* a DownloadConfig, with the video info the controller held when the call
\* was made
NoConfig == [url |-> "None", valid |-> FALSE, info |-> "None"]

NoLocals == [branch |-> "none", items |-> <<>>, mediaOk |-> FALSE, raised |-> FALSE]

\* history.json holding the list l, and the file just opened with "w"
FileOf(l) == [list |-> l, complete |-> TRUE]

TruncatedFile == [list |-> <<>>, complete |-> FALSE]

NoCalls == [success |-> 0, error |-> 0, complete |-> 0, msg |-> "none"]

\* an entry stored by an earlier run
OldEntry == [title |-> <<"title", "a">>, url |-> "a"]

\* download_controller.py lines 14-18: the controller after __init__
ControllerFresh ==
    /\ isDownloading = FALSE /\ videoInfo = "None"
    /\ uiop = "idle" /\ histOps = 0
    /\ downloadBtn = TRUE /\ enableQueue = 0
    /\ cpc = [c \in Callers |-> "idle"]
    /\ cfg = [c \in Callers |-> NoConfig]
    /\ fpc = [f \in Fetchers |-> "idle"]
    /\ furl = [f \in Fetchers |-> "None"]
    /\ dpc = [c \in Callers |-> "none"]
    /\ dloc = [c \in Callers |-> NoLocals]
    /\ calls = [c \in Callers |-> NoCalls]
    /\ spc = [t \in HistThreads |-> "idle"]
    /\ sbuf = [t \in HistThreads |-> <<>>]

\* history_service.py lines 10-19: no history.json, an empty history
ControllerIdle == ControllerFresh /\ history = <<>> /\ historyFile = FileOf(<<>>)

\* the window before its constructor schedules the version check; also the
\* service used without the window
GuiIdle ==
    /\ timer = 0 /\ checkThreads = 0 /\ notifyQueue = 0
    /\ updateBtn = "absent" /\ tasksStarted = 0

\* no version check is running
CheckIdle ==
    /\ GuiIdle
    /\ ckpc = "idle"
    /\ currentVersion = None /\ response = None /\ latestVersion = None
    /\ downloadUrl = None /\ exc = "none"
    /\ result = [available |-> FALSE, version |-> None, url |-> None]

-----------------------------------------------------------------------------
(* UpdateService.checkForUpdates *)

\* A plausible slip: only the network errors are caught
CatchesRequestErrorsOnly(e) == e \in {"Timeout", "ConnectionError"}

\* except Exception:  every exception of the try body is an Exception
Catches(e) == e \in {"Timeout", "ConnectionError", "JSONDecodeError", "AttributeError", "InvalidVersion"}

InitCheck ==
    /\ ckpc = "start"
    /\ currentVersion \in VersionStrings \cup InvalidVersionStrings
    /\ response \in Responses
    /\ latestVersion = None
    /\ downloadUrl = None
    /\ exc = "none"
    /\ result = NotAvailable
    /\ GuiIdle
    /\ ControllerIdle
    /\ DownloadIdle

\* line 19: requests.get(VERSION_URL, timeout=5)
RequestManifest ==
    /\ ckpc = "start"
    /\ IF response.net = "ok"
       THEN ckpc' = "status" /\ exc' = exc
       ELSE ckpc' = "except" /\ exc' = response.net
    /\ UNCHANGED <<currentVersion, response, latestVersion, downloadUrl, result,
                 ctlvars, guivars, envvars, dlvars, cbvars, upvars, staging, oldExe, primaryAlive, popenCalls, launched, extLock>>

\* lines 20, 27: if response.status_code == 200: ... ; return False, None, None
CheckStatus ==
    /\ ckpc = "status"
    /\ IF response.status = 200
       THEN ckpc' = "json" /\ result' = result
       ELSE ckpc' = "returned" /\ result' = NotAvailable
    /\ UNCHANGED <<currentVersion, response, latestVersion, downloadUrl, exc,
                 ctlvars, guivars, envvars, dlvars, cbvars, upvars, staging, oldExe, primaryAlive, popenCalls, launched, extLock>>

\* lines 21-23: data = response.json(); data.get(...); data.get(...)
ParseManifest ==
    /\ ckpc = "json"
    /\ CASE response.body.json = "malformed" ->
              ckpc' = "except" /\ exc' = "JSONDecodeError" /\ UNCHANGED <<latestVersion, downloadUrl>>
         [] response.body.json = "array" ->
              ckpc' = "except" /\ exc' = "AttributeError" /\ UNCHANGED <<latestVersion, downloadUrl>>
         [] OTHER ->
              /\ ckpc' = "compare"
              /\ latestVersion' = response.body.latest_version
              /\ downloadUrl' = response.body.download_url
              /\ exc' = exc
    /\ UNCHANGED <<currentVersion, response, result,
                 ctlvars, guivars, envvars, dlvars, cbvars, upvars, staging, oldExe, primaryAlive, popenCalls, launched, extLock>>

\* lines 25-27
CompareVersions ==
    /\ ckpc = "compare"
    /\ IF ~Truthy(latestVersion)
       THEN ckpc' = "returned" /\ result' = NotAvailable /\ exc' = exc
       ELSE IF ~VersionValid(latestVersion) \/ ~VersionValid(currentVersion)
       THEN ckpc' = "except" /\ exc' = "InvalidVersion" /\ result' = result
       ELSE IF VersionGreater(latestVersion, currentVersion)
       THEN /\ ckpc' = "returned"
            /\ result' = [available |-> TRUE, version |-> latestVersion, url |-> downloadUrl]
            /\ exc' = exc
       ELSE ckpc' = "returned" /\ result' = NotAvailable /\ exc' = exc
    /\ UNCHANGED <<currentVersion, response, latestVersion, downloadUrl,
                 ctlvars, guivars, envvars, dlvars, cbvars, upvars, staging, oldExe, primaryAlive, popenCalls, launched, extLock>>

\* lines 28-29: except Exception: return False, None, None
HandleCheckException ==
    /\ ckpc = "except"
    /\ IF Catches(exc)
       THEN ckpc' = "returned" /\ result' = NotAvailable /\ exc' = "none"
       ELSE ckpc' = "raised" /\ result' = result /\ exc' = exc
    /\ UNCHANGED <<currentVersion, response, latestVersion, downloadUrl,
                 ctlvars, guivars, envvars, dlvars, cbvars, upvars, staging, oldExe, primaryAlive, popenCalls, launched, extLock>>

NextCheck ==
    \/ RequestManifest
    \/ CheckStatus
    \/ ParseManifest
    \/ CompareVersions
    \/ HandleCheckException

SpecCheck == InitCheck /\ [][NextCheck]_vars

-----------------------------------------------------------------------------
(* UpdateService._downloadTask and _launchUpdater: the Primary's thread *)

Init ==
    /\ CheckIdle
    /\ ControllerIdle
    /\ pc = "start"
    /\ frozen \in BOOLEAN
    /\ updaterAt \in SUBSET {"meipass", "currentDir"}
    /\ updaterPath = "None" /\ safeUpdater = "None"
    /\ \E cb \in CallbackChoices :
          progressCallback = cb[1] /\ completedCallback = cb[2] /\ errorCallback = cb[3]
    /\ newExePath = "None"
    /\ body \in Bodies
    /\ contentLength \in ContentLengths
    /\ totalSize = 0 /\ downloaded = 0 /\ sent = 0
    /\ stream = "idle" /\ fileOpen = FALSE /\ requests = 0
    /\ staging \in {NoFile, StaleFile}
    /\ oldExe = OldBinary
    /\ removeFailed = FALSE
    /\ progressLog = <<>> /\ completeCalls = 0 /\ errorCalls = 0 /\ errorMsg = "none"
    /\ stagingAtError = FALSE
    /\ primaryAlive = TRUE /\ popenCalls = 0 /\ launched = "None"
    /\ extLock \in BOOLEAN
    /\ upc = "none" /\ attempts = 0 /\ relaunched = FALSE /\ closed = FALSE
    /\ argc = 0 /\ exitCode = -1 /\ lastDelete = "none" /\ moveCalls = 0 /\ startfileCalls = 0

\* if errorCallback: errorCallback(msg)   (exists: the staging file exists at the call)
CallError(msg, exists) ==
    IF errorCallback
    THEN errorCalls' = errorCalls + 1 /\ errorMsg' = msg /\ stagingAtError' = exists
    ELSE UNCHANGED <<errorCalls, errorMsg, stagingAtError>>

\* A plausible slip: the frozen check left out
FrozenCheckSkipped == FALSE

\* line 50: not getattr(sys, 'frozen', False)
NotFrozen == ~frozen

\* lines 50-52
CheckFrozen ==
    /\ pc = "start"
    /\ IF NotFrozen
       THEN pc' = "returned" /\ CallError("dev_environment", staging.exists)
       ELSE pc' = "locate" /\ UNCHANGED <<errorCalls, errorMsg, stagingAtError>>
    /\ UNCHANGED <<ctlvars, ckvars, guivars, envvars, updaterPath, safeUpdater, newExePath, totalSize, downloaded,
                   sent, stream, fileOpen, requests, removeFailed, progressLog, completeCalls,
                   upvars, staging, oldExe, primaryAlive, popenCalls, launched, extLock>>

\* lines 59-69: the first of the two possible paths that exists
FindUpdater(locs) ==
    IF "meipass" \in locs THEN "meipass"
    ELSE IF "currentDir" \in locs THEN "currentDir"
    ELSE "None"

\* lines 54-73
LocateUpdater ==
    /\ pc = "locate"
    /\ newExePath' = "set"
    /\ updaterPath' = FindUpdater(updaterAt)
    /\ IF updaterPath' = "None"
       THEN pc' = "returned" /\ CallError("updater_not_found", staging.exists)
       ELSE pc' = "copy" /\ UNCHANGED <<errorCalls, errorMsg, stagingAtError>>
    /\ UNCHANGED <<ctlvars, ckvars, guivars, envvars, safeUpdater, totalSize, downloaded,
                   sent, stream, fileOpen, requests, removeFailed, progressLog, completeCalls,
                   upvars, staging, oldExe, primaryAlive, popenCalls, launched, extLock>>

\* lines 78-79: shutil.copy2(updaterPath, safeUpdaterPath), which may raise
CopyUpdater ==
    /\ pc = "copy"
    /\ \E ok \in BOOLEAN :
          IF ok THEN pc' = "request" /\ safeUpdater' = updaterPath
          ELSE pc' = "except" /\ safeUpdater' = safeUpdater
    /\ UNCHANGED <<ctlvars, ckvars, guivars, envvars, updaterPath, newExePath, totalSize, downloaded,
                   sent, stream, fileOpen, requests, removeFailed, cbvars,
                   upvars, staging, oldExe, primaryAlive, popenCalls, launched, extLock>>

\* lines 82-86: requests.get, raise_for_status, int(content-length)
RequestDownload ==
    /\ pc = "request"
    /\ requests' = requests + 1
    /\ \E outcome \in {"ok", "ConnectionError", "HTTPError"} :
          IF outcome = "ok" /\ contentLength # -1
          THEN pc' = "open" /\ totalSize' = contentLength /\ downloaded' = 0
          ELSE pc' = "except" /\ UNCHANGED <<totalSize, downloaded>>
    /\ UNCHANGED <<ctlvars, ckvars, guivars, envvars, updaterPath, safeUpdater, newExePath,
                   sent, stream, fileOpen, removeFailed, cbvars,
                   upvars, staging, oldExe, primaryAlive, popenCalls, launched, extLock>>

\* A plausible slip: the download written over the running executable
OpensCurrentExe == "old"

\* lines 56, 88: the file opened is newExePath, currentExePath + ".new"
OpenedPath == "new"

\* line 88: open(newExePath, 'wb') creates or truncates the file, or raises
OpenStaging ==
    /\ pc = "open"
    /\ \E ok \in BOOLEAN :
          IF ok
          THEN /\ pc' = "stream" /\ fileOpen' = TRUE /\ stream' = "reading"
               /\ IF OpenedPath = "new"
                  THEN /\ staging' = [exists |-> TRUE, origin |-> "download", bytes |-> 0]
                       /\ UNCHANGED oldExe
                  ELSE /\ oldExe' = [exists |-> TRUE, origin |-> "download", bytes |-> 0]
                       /\ UNCHANGED staging
          ELSE pc' = "except" /\ UNCHANGED <<fileOpen, stream, staging, oldExe>>
    /\ UNCHANGED <<ctlvars, ckvars, guivars, envvars, updaterPath, safeUpdater, newExePath, totalSize, downloaded,
                   sent, requests, removeFailed, cbvars,
                   upvars, primaryAlive, popenCalls, launched, extLock>>

\* min(downloaded / totalSize, 1.0), as a fraction num/den
ProgressFraction(d, total) ==
    IF d > total THEN [num |-> total, den |-> total] ELSE [num |-> d, den |-> total]

\* A plausible slip: the progress reported before the chunk is counted
StaleReport(d, n, total) == ProgressFraction(d, total)

\* lines 94-97: the fraction reported after a chunk of n bytes, d bytes before it
ReportedFraction(d, n, total) == ProgressFraction(d + n, total)

\* lines 90-97: one iteration of the loop; file.write may raise
WriteChunk ==
    /\ pc = "stream"
    /\ sent < Len(body)
    /\ sent' = sent + 1
    /\ \E ok \in BOOLEAN :
          IF ok
          THEN /\ staging' = [staging EXCEPT !.bytes = @ + body[sent + 1]]
               /\ downloaded' = downloaded + body[sent + 1]
               /\ progressLog' = IF progressCallback /\ totalSize > 0
                                 THEN Append(progressLog,
                                             ReportedFraction(downloaded, body[sent + 1], totalSize))
                                 ELSE progressLog
               /\ UNCHANGED <<pc, fileOpen>>
          ELSE /\ pc' = "except" /\ fileOpen' = FALSE
               /\ UNCHANGED <<staging, downloaded, progressLog>>
    /\ UNCHANGED <<ctlvars, ckvars, guivars, envvars, updaterPath, safeUpdater, newExePath, totalSize,
                   stream, requests, removeFailed, completeCalls, errorCalls, errorMsg,
                   stagingAtError, upvars, oldExe, primaryAlive, popenCalls, launched, extLock>>

\* line 90: iter_content raises (connection lost, read timeout)
StreamRaises ==
    /\ pc = "stream"
    /\ pc' = "except" /\ stream' = "broken" /\ fileOpen' = FALSE
    /\ UNCHANGED <<ctlvars, ckvars, guivars, envvars, updaterPath, safeUpdater, newExePath, totalSize, downloaded,
                   sent, requests, removeFailed, cbvars,
                   upvars, staging, oldExe, primaryAlive, popenCalls, launched, extLock>>

\* lines 90-92: the iterator is exhausted (or yields an empty chunk): the body
\* is complete, or the connection was closed before its end
StreamEnds ==
    /\ pc = "stream"
    /\ pc' = "verify" /\ stream' = "ended" /\ fileOpen' = FALSE
    /\ UNCHANGED <<ctlvars, ckvars, guivars, envvars, updaterPath, safeUpdater, newExePath, totalSize, downloaded,
                   sent, requests, removeFailed, cbvars,
                   upvars, staging, oldExe, primaryAlive, popenCalls, launched, extLock>>

\* A plausible slip: the integrity check left out
IntegrityNeverFails(total, d) == FALSE

\* A plausible slip: only a short download is refused
IntegrityShortOnly(total, d) == total > 0 /\ d < total

\* line 100: totalSize > 0 and downloaded != totalSize
IntegrityFailed(total, d) == total > 0 /\ d # total

\* lines 100-104: os.remove may raise, which leaves the try body
VerifyIntegrity ==
    /\ pc = "verify"
    /\ IF IntegrityFailed(totalSize, downloaded)
       THEN IF staging.exists
            THEN \E ok \in BOOLEAN :
                    IF ok
                    THEN /\ staging' = NoFile /\ removeFailed' = FALSE
                         /\ pc' = "returned" /\ CallError("incomplete", FALSE)
                    ELSE /\ removeFailed' = TRUE /\ pc' = "except"
                         /\ UNCHANGED <<staging, errorCalls, errorMsg, stagingAtError>>
            ELSE /\ pc' = "returned" /\ CallError("incomplete", FALSE)
                 /\ UNCHANGED <<staging, removeFailed>>
       ELSE /\ pc' = "complete"
            /\ UNCHANGED <<staging, removeFailed, errorCalls, errorMsg, stagingAtError>>
    /\ UNCHANGED <<ctlvars, ckvars, guivars, envvars, updaterPath, safeUpdater, newExePath, totalSize, downloaded,
                   sent, stream, fileOpen, requests, progressLog, completeCalls,
                   upvars, oldExe, primaryAlive, popenCalls, launched, extLock>>

\* lines 107-108
InvokeCompleted ==
    /\ pc = "complete"
    /\ pc' = "launch"
    /\ completeCalls' = IF completedCallback THEN completeCalls + 1 ELSE completeCalls
    /\ UNCHANGED <<ctlvars, ckvars, guivars, envvars, updaterPath, safeUpdater, newExePath, totalSize, downloaded,
                   sent, stream, fileOpen, requests, removeFailed, progressLog, errorCalls,
                   errorMsg, stagingAtError, upvars, staging, oldExe, primaryAlive, popenCalls,
                   launched, extLock>>

\* A plausible slip: os._exit(0) at the end of the try body instead of in finally
ExitsOnlyAfterLaunch(ok) == ok

\* lines 136-138: finally: os._exit(0)
ExitsAfterPopen(ok) == TRUE

\* A plausible slip: the updater is started from where it was found
LaunchesFoundUpdater(found) == found

\* lines 75, 111: what is started is safeUpdaterPath, the copy in the temp
\* directory, not the updater found at updaterPath
PopenTarget(found) == "temp"

\* lines 111, 128-135: Popen([safeUpdaterPath, oldExe, newExe]) starts the
\* Updater detached, or raises (which is printed)
LaunchUpdater ==
    /\ pc = "launch"
    /\ popenCalls' = popenCalls + 1
    /\ \E ok \in BOOLEAN :
          /\ IF ok THEN launched' = PopenTarget(updaterPath) /\ upc' = "main" /\ argc' = 2
                   ELSE UNCHANGED <<launched, upc, argc>>
          /\ pc' = IF ExitsAfterPopen(ok) THEN "exit" ELSE "returned"
    /\ UNCHANGED <<ctlvars, ckvars, guivars, envvars, updaterPath, safeUpdater, newExePath, totalSize, downloaded,
                   sent, stream, fileOpen, requests, removeFailed, cbvars,
                   attempts, relaunched, closed, exitCode, lastDelete, moveCalls, startfileCalls,
                   staging, oldExe, primaryAlive, extLock>>

\* line 138: os._exit(0) ends the Primary process at once
ExitPrimary ==
    /\ pc = "exit"
    /\ pc' = "exited" /\ primaryAlive' = FALSE
    /\ UNCHANGED <<ctlvars, ckvars, guivars, envvars, updaterPath, safeUpdater, newExePath, totalSize, downloaded,
                   sent, stream, fileOpen, requests, removeFailed, cbvars,
                   upvars, staging, oldExe, popenCalls, launched, extLock>>

\* A plausible slip: the handler reports the error without cleaning up
NoCleanup(path, exists) == FALSE

\* line 115: newExePath and os.path.exists(newExePath)
CleanupNeeded(path, exists) == path # "None" /\ exists

\* lines 113-121: the handler removes the staging file (a failure of the remove
\* is swallowed) and then reports the error
HandleDownloadException ==
    /\ pc = "except"
    /\ pc' = "returned"
    /\ IF CleanupNeeded(newExePath, staging.exists)
       THEN \E ok \in BOOLEAN :
               IF ok
               THEN staging' = NoFile /\ removeFailed' = FALSE /\ CallError("update_failed", FALSE)
               ELSE /\ removeFailed' = TRUE /\ UNCHANGED staging
                    /\ CallError("update_failed", TRUE)
       ELSE UNCHANGED <<staging, removeFailed>> /\ CallError("update_failed", staging.exists)
    /\ UNCHANGED <<ctlvars, ckvars, guivars, envvars, updaterPath, safeUpdater, newExePath, totalSize, downloaded,
                   sent, stream, fileOpen, requests, progressLog, completeCalls,
                   upvars, oldExe, primaryAlive, popenCalls, launched, extLock>>

PrimaryNext ==
    \/ CheckFrozen
    \/ LocateUpdater
    \/ CopyUpdater
    \/ RequestDownload
    \/ OpenStaging
    \/ WriteChunk
    \/ StreamRaises
    \/ StreamEnds
    \/ VerifyIntegrity
    \/ InvokeCompleted
    \/ LaunchUpdater
    \/ ExitPrimary
    \/ HandleDownloadException

-----------------------------------------------------------------------------
(* performUpdate: the Updater's thread (src/updater.py) *)

\* A plausible slip: arguments beyond the two paths are tolerated
ArgCountAtLeast(n) == n + 1 >= ArgvLen

\* line 54: len(sys.argv) == 3 (sys.argv[0] is the script)
ArgCountOk(n) == n + 1 = ArgvLen

\* lines 53-87: main() leaves with sys.exit(1) on a wrong argument count,
\* otherwise builds the window and starts performUpdate in a thread
UpdaterMain ==
    /\ upc = "main"
    /\ IF ArgCountOk(argc)
       THEN upc' = "wait" /\ UNCHANGED exitCode
       ELSE upc' = "usage" /\ exitCode' = 1
    /\ UNCHANGED <<ctlvars, ckvars, guivars, envvars, dlvars, cbvars, attempts, relaunched, closed, argc,
                   lastDelete, moveCalls, startfileCalls, staging, oldExe,
                   primaryAlive, popenCalls, launched, extLock>>

\* os.remove(oldExe) is denied: the Primary still runs from it, or something
\* else holds it
Locked == primaryAlive \/ extLock

\* A plausible slip: the loop without its else branch, so that the code after
\* it runs when the budget is spent
FallsThroughToInstall(n) == IF n = MaxAttempts THEN "install" ELSE "wait"

\* A plausible slip: the PermissionError ends the wait
ProceedsOnPermissionError(n) == "install"

\* A plausible slip: one attempt fewer than the budget
BudgetOneShort(n) == IF n >= MaxAttempts - 1 THEN "timeout" ELSE "wait"

\* lines 22, 27-29: after the n-th PermissionError the loop sleeps and goes
\* on, or, the range exhausted, runs its else branch
AfterPermissionError(n) == IF n = MaxAttempts THEN "timeout" ELSE "wait"

\* lines 22-28: one iteration of the wait loop.  PermissionError: sleep and
\* retry; any other error of os.remove is not caught and ends the thread.
TryDelete ==
    /\ upc = "wait"
    /\ IF ~oldExe.exists
       THEN upc' = "install" /\ lastDelete' = "absent" /\ UNCHANGED <<attempts, oldExe>>
       ELSE IF Locked
       THEN /\ attempts' = attempts + 1
            /\ upc' = AfterPermissionError(attempts + 1)
            /\ lastDelete' = "PermissionError"
            /\ UNCHANGED oldExe
       ELSE \E r \in {"ok", "OSError"} :
               /\ lastDelete' = r
               /\ IF r = "ok"
                  THEN upc' = "install" /\ oldExe' = NoFile /\ UNCHANGED attempts
                  ELSE upc' = "crashed" /\ UNCHANGED <<attempts, oldExe>>
    /\ UNCHANGED <<ctlvars, ckvars, guivars, envvars, dlvars, cbvars, relaunched, closed, argc, exitCode,
                   moveCalls, startfileCalls, staging,
                   primaryAlive, popenCalls, launched, extLock>>

\* lines 29-33: the loop's else branch; closeUpdater ends mainloop and the process
GiveUp ==
    /\ upc = "timeout"
    /\ upc' = "TimedOut" /\ closed' = TRUE /\ exitCode' = 0
    /\ UNCHANGED <<ctlvars, ckvars, guivars, envvars, dlvars, cbvars, attempts, relaunched, argc, lastDelete,
                   moveCalls, startfileCalls, staging, oldExe,
                   primaryAlive, popenCalls, launched, extLock>>

\* A plausible slip: a copy, which leaves the staging file behind
SourceKept(src) == src

\* line 37: after shutil.move the source path holds nothing
SourceAfterMove(src) == NoFile

\* A plausible slip: the failure handler without its return
RelaunchAfterFailedMove == "relaunch"

\* lines 38-42: where a failed move leads
AfterMoveFailure == "InstallFailed"

\* lines 35-42: shutil.move(newExe, oldExe), a rename within one directory:
\* it moves the file or raises and changes nothing
Install ==
    /\ upc = "install"
    /\ moveCalls' = moveCalls + 1
    /\ \E ok \in BOOLEAN :
          IF ok /\ staging.exists
          THEN /\ oldExe' = staging /\ staging' = SourceAfterMove(staging)
               /\ upc' = "relaunch" /\ UNCHANGED <<closed, exitCode>>
          ELSE /\ upc' = AfterMoveFailure
               /\ IF AfterMoveFailure = "InstallFailed"
                  THEN closed' = TRUE /\ exitCode' = 0
                  ELSE UNCHANGED <<closed, exitCode>>
               /\ UNCHANGED <<oldExe, staging>>
    /\ UNCHANGED <<ctlvars, ckvars, guivars, envvars, dlvars, cbvars, attempts, relaunched, argc, lastDelete,
                   startfileCalls, primaryAlive, popenCalls, launched, extLock>>

\* A plausible slip: os.startfile outside a try, so that its failure ends the thread
StartfileUnguarded(ok) == IF ok THEN "Done" ELSE "crashed"

\* lines 45-51: the failure of os.startfile is passed over
AfterStartfile(ok) == "Done"

\* lines 44-51: os.startfile(oldExe), then closeUpdater
Relaunch ==
    /\ upc = "relaunch"
    /\ startfileCalls' = startfileCalls + 1
    /\ \E ok \in BOOLEAN :
          /\ relaunched' = ok
          /\ upc' = AfterStartfile(ok)
          /\ IF AfterStartfile(ok) = "Done"
             THEN closed' = TRUE /\ exitCode' = 0
             ELSE UNCHANGED <<closed, exitCode>>
    /\ UNCHANGED <<ctlvars, ckvars, guivars, envvars, dlvars, cbvars, attempts, argc, lastDelete, moveCalls,
                   staging, oldExe, primaryAlive, popenCalls, launched, extLock>>

UpdaterNext ==
    \/ UpdaterMain
    \/ TryDelete
    \/ GiveUp
    \/ Install
    \/ Relaunch

\* the environment: whatever else held the old executable lets go of it
\* (before the Updater waits, a release is the same as no lock at the start)
ReleaseLock ==
    /\ extLock
    /\ upc = "wait"
    /\ extLock' = FALSE
    /\ UNCHANGED <<ctlvars, ckvars, guivars, envvars, dlvars, cbvars, upvars, staging, oldExe,
                   primaryAlive, popenCalls, launched>>

Next == PrimaryNext \/ UpdaterNext \/ ReleaseLock

Spec == Init /\ [][Next]_vars

\* The download thread and the Updater's thread are scheduled until they end.
FairSpec == Spec /\ WF_vars(PrimaryNext) /\ WF_vars(UpdaterNext)

\* The Updater started on its own, with any number of arguments, whatever
\* the files at the two paths and whether or not the Primary is running.
InitUpdater ==
    /\ CheckIdle
    /\ ControllerIdle
    /\ pc = "idle"
    /\ frozen = TRUE /\ updaterAt = {} /\ updaterPath = "None" /\ safeUpdater = "None"
    /\ progressCallback = FALSE /\ completedCallback = FALSE /\ errorCallback = FALSE
    /\ newExePath = "None"
    /\ body = <<>> /\ contentLength = 0 /\ totalSize = 0 /\ downloaded = 0 /\ sent = 0
    /\ stream = "idle" /\ fileOpen = FALSE /\ requests = 0
    /\ staging \in {NoFile, StaleFile}
    /\ oldExe \in {NoFile, OldBinary}
    /\ removeFailed = FALSE
    /\ progressLog = <<>> /\ completeCalls = 0 /\ errorCalls = 0 /\ errorMsg = "none"
    /\ stagingAtError = FALSE
    /\ primaryAlive \in BOOLEAN /\ popenCalls = 0 /\ launched = "None"
    /\ extLock \in BOOLEAN
    /\ upc = "main" /\ attempts = 0 /\ relaunched = FALSE /\ closed = FALSE
    /\ argc \in 0..MaxArgs
    /\ exitCode = -1 /\ lastDelete = "none" /\ moveCalls = 0 /\ startfileCalls = 0

NextUpdater == UpdaterNext \/ ReleaseLock

SpecUpdater == InitUpdater /\ [][NextUpdater]_vars

-----------------------------------------------------------------------------
(* VideoDownloaderGUI: the version check and the update button *)

\* gui.py line 80: self.VERSION, the version of the running build
GuiVersion == FormatVersion(<<1, 0, 0>>)

\* what the manifest server answers to the window's check: no answer, an
\* error, no version, the running version or a newer one
GuiResponses ==
    {r \in Responses :
        r.body.latest_version \in {None, FormatVersion(<<1, 0, 0>>), FormatVersion(<<1, 1, 0>>)}}

\* gui.py lines 78-83: the window after its constructor, the check scheduled
\* once; the build, the files and the server are what the run will meet
InitGui ==
    /\ ControllerIdle
    /\ timer = 1 /\ checkThreads = 0 /\ notifyQueue = 0
    /\ updateBtn = "absent" /\ tasksStarted = 0
    /\ ckpc = "idle"
    /\ currentVersion = GuiVersion
    /\ response \in GuiResponses
    /\ latestVersion = None /\ downloadUrl = None /\ exc = "none"
    /\ result = NotAvailable
    /\ pc = "idle"
    /\ frozen \in BOOLEAN
    /\ updaterAt \in SUBSET {"meipass", "currentDir"}
    /\ updaterPath = "None" /\ safeUpdater = "None"
    /\ progressCallback = FALSE /\ completedCallback = FALSE /\ errorCallback = FALSE
    /\ newExePath = "None"
    /\ body \in Bodies
    /\ contentLength \in ContentLengths
    /\ totalSize = 0 /\ downloaded = 0 /\ sent = 0
    /\ stream = "idle" /\ fileOpen = FALSE /\ requests = 0
    /\ staging = NoFile
    /\ oldExe = OldBinary
    /\ removeFailed = FALSE
    /\ progressLog = <<>> /\ completeCalls = 0 /\ errorCalls = 0 /\ errorMsg = "none"
    /\ stagingAtError = FALSE
    /\ primaryAlive = TRUE /\ popenCalls = 0 /\ launched = "None"
    /\ extLock = FALSE
    /\ upc = "none" /\ attempts = 0 /\ relaunched = FALSE /\ closed = FALSE
    /\ argc = 0 /\ exitCode = -1 /\ lastDelete = "none" /\ moveCalls = 0 /\ startfileCalls = 0

\* gui.py lines 83-87, 90: the timer fires, _startUpdateCheck starts the
\* thread and the thread enters checkForUpdates(self.VERSION)
StartUpdateCheck ==
    /\ primaryAlive /\ timer > 0
    /\ timer' = timer - 1
    /\ checkThreads' = checkThreads + 1
    /\ ckpc' = "start"
    /\ UNCHANGED <<currentVersion, response, latestVersion, downloadUrl, exc, result,
                   notifyQueue, updateBtn, tasksStarted,
                   ctlvars, envvars, dlvars, cbvars, upvars, staging, oldExe, primaryAlive,
                   popenCalls, launched, extLock>>

\* gui.py lines 90-93: checkForUpdates has returned; an available update is
\* handed to the main thread with root.after(0, ...)
FinishUpdateCheck ==
    /\ primaryAlive /\ ckpc = "returned"
    /\ ckpc' = "done"
    /\ notifyQueue' = IF result.available THEN notifyQueue + 1 ELSE notifyQueue
    /\ UNCHANGED <<currentVersion, response, latestVersion, downloadUrl, exc, result,
                   timer, checkThreads, updateBtn, tasksStarted,
                   ctlvars, envvars, dlvars, cbvars, upvars, staging, oldExe, primaryAlive,
                   popenCalls, launched, extLock>>

\* gui.py lines 95-105: _showUpdateNotification makes self.updateBtn, enabled
ShowUpdateNotification ==
    /\ primaryAlive /\ notifyQueue > 0
    /\ notifyQueue' = notifyQueue - 1
    /\ updateBtn' = "normal"
    /\ UNCHANGED <<ctlvars, ckvars, timer, checkThreads, tasksStarted,
                   ctlvars, envvars, dlvars, cbvars, upvars, staging, oldExe, primaryAlive,
                   popenCalls, launched, extLock>>

\* A plausible slip: the button is left enabled
ButtonLeftEnabled == "normal"

\* gui.py line 110: self.updateBtn.configure(state="disabled", ...)
ButtonAfterClick == "disabled"

\* gui.py lines 107-126 and update_service.py lines 31-43: a click on the
\* enabled button runs _startAutoUpdate, whose thread calls
\* downloadAndInstall(url, self._updateProgress, None), which starts
\* _downloadTask in a thread.  The model follows the first task step by step
\* and counts any further one.
ClickUpdate ==
    /\ primaryAlive /\ updateBtn = "normal"
    /\ updateBtn' = ButtonAfterClick
    /\ tasksStarted' = tasksStarted + 1
    /\ IF pc = "idle"
       THEN /\ pc' = "start"
            /\ progressCallback' = TRUE
            /\ completedCallback' = FALSE
            /\ errorCallback' = FALSE
       ELSE UNCHANGED <<pc, progressCallback, completedCallback, errorCallback>>
    /\ UNCHANGED <<ctlvars, ckvars, timer, checkThreads, notifyQueue,
                   frozen, updaterAt, body, contentLength,
                   updaterPath, safeUpdater, newExePath, totalSize, downloaded, sent,
                   stream, fileOpen, requests, removeFailed,
                   cbvars, upvars, staging, oldExe, primaryAlive,
                   popenCalls, launched, extLock>>

\* a click on the disabled button runs no command
ClickDisabled ==
    /\ primaryAlive /\ updateBtn = "disabled"
    /\ UNCHANGED vars

GuiNext ==
    \/ StartUpdateCheck
    \/ FinishUpdateCheck
    \/ ShowUpdateNotification
    \/ ClickUpdate
    \/ ClickDisabled

NextGui == GuiNext \/ NextCheck \/ PrimaryNext

SpecGui == InitGui /\ [][NextGui]_vars

-----------------------------------------------------------------------------
(* DownloadController (src/src/core/download_controller.py) with            *)
(* HistoryService (src/src/services/history_service.py), as the window      *)
(* uses them                                                                *)

\* the most UI calls of removeEntry and clearHistory
MaxHistOps == 2

\* the largest index passed to removeEntry
MaxIndex == 1

\* the UI thread runs one handler at a time
UiIdle == uiop = "idle"

\* gui.py lines 707-752, download_controller.py lines 20-40: the fetch
\* button starts a fetch thread for the url in the entry
FetchClicked ==
    /\ UiIdle /\ fpc["fetch"] = "idle"
    /\ \E u \in Urls : furl' = [furl EXCEPT !["fetch"] = u]
    /\ fpc' = [fpc EXCEPT !["fetch"] = "get"]
    /\ UNCHANGED <<updvars, isDownloading, videoInfo, history, historyFile, uiop, cpc, cfg,
                   dpc, dloc, calls, spc, sbuf, histOps, downloadBtn, enableQueue>>

\* gui.py lines 645-679, history_view.py line 552: a re-download from the
\* history window disables the download button and starts a fetch thread
\* for the entry's url; the history window's button is always enabled
ReDownload(r) ==
    /\ UiIdle /\ fpc[r] = "idle"
    /\ r = "redownload2" => fpc["redownload1"] # "idle"
    /\ \E u \in Urls : furl' = [furl EXCEPT ![r] = u]
    /\ fpc' = [fpc EXCEPT ![r] = "get"]
    /\ downloadBtn' = FALSE
    /\ UNCHANGED <<updvars, isDownloading, videoInfo, history, historyFile, uiop, cpc, cfg,
                   dpc, dloc, calls, spc, sbuf, histOps, enableQueue>>

\* gui.py lines 848-850: _onDownloadComplete schedules the enabling of the
\* download button on the UI thread
OnDownloadComplete == enableQueue + 1

\* download_controller.py lines 31-35: self.videoInfo = getVideoInfo(url),
\* which may raise; gui.py lines 673-677: the onError of a re-download calls
\* _onDownloadComplete
FetchGet(f) ==
    /\ fpc[f] = "get"
    /\ \E ok \in BOOLEAN :
          IF ok
          THEN /\ videoInfo' = furl[f]
               /\ fpc' = [fpc EXCEPT ![f] = "success"]
               /\ UNCHANGED enableQueue
          ELSE /\ fpc' = [fpc EXCEPT ![f] = "done"]
               /\ enableQueue' = IF f \in Redownloads THEN OnDownloadComplete ELSE enableQueue
               /\ UNCHANGED videoInfo
    /\ UNCHANGED <<updvars, isDownloading, history, historyFile, uiop, cpc, cfg, furl,
                   dpc, dloc, calls, spc, sbuf, histOps, downloadBtn>>

\* gui.py line 850: the UI thread runs a scheduled callback
EnableButton ==
    /\ UiIdle /\ enableQueue > 0
    /\ downloadBtn' = TRUE
    /\ enableQueue' = enableQueue - 1
    /\ UNCHANGED <<updvars, isDownloading, videoInfo, history, historyFile, uiop, cpc, cfg,
                   fpc, furl, dpc, dloc, calls, spc, sbuf, histOps>>

\* download_controller.py lines 33, 37 with gui.py lines 657-672 and
\* 738-750: onSuccess runs on the fetch thread.  That of a re-download calls
\* startDownload there, with the url fetched and the directory chosen (both
\* non-empty, so that the config is valid); that of
\* the fetch button hands the display to the UI thread.
FetchSuccess(f) ==
    /\ fpc[f] = "success"
    /\ IF f \in Redownloads
       THEN /\ cpc[f] = "idle"
            /\ cfg' = [cfg EXCEPT ![f] =
                                  [url |-> furl[f], valid |-> TRUE, info |-> videoInfo]]
            /\ cpc' = [cpc EXCEPT ![f] = "check"]
            /\ fpc' = [fpc EXCEPT ![f] = "calling"]
       ELSE fpc' = [fpc EXCEPT ![f] = "done"] /\ UNCHANGED <<cfg, cpc>>
    /\ UNCHANGED <<updvars, isDownloading, videoInfo, history, historyFile, uiop, furl,
                   dpc, dloc, calls, spc, sbuf, histOps, downloadBtn, enableQueue>>

\* gui.py lines 780-830: the download button, which answers while it is
\* enabled.  While a download is in progress the handler shows a message and
\* calls nothing; otherwise it disables the button and calls startDownload
\* with the url in the entry and an existing path.
DownloadClicked ==
    /\ UiIdle /\ downloadBtn /\ cpc["button"] = "idle"
    /\ IF isDownloading
       THEN cpc' = [cpc EXCEPT !["button"] = "refused"] /\ UNCHANGED <<cfg, uiop, downloadBtn>>
       ELSE /\ \E u \in Urls : cfg' = [cfg EXCEPT !["button"] =
                                             [url |-> u, valid |-> TRUE, info |-> videoInfo]]
            /\ cpc' = [cpc EXCEPT !["button"] = "check"]
            /\ uiop' = "startDownload"
            /\ downloadBtn' = FALSE
    /\ UNCHANGED <<updvars, isDownloading, videoInfo, history, historyFile, fpc, furl,
                   dpc, dloc, calls, spc, sbuf, histOps, enableQueue>>

\* startDownload returns to the thread that called it
ReturnFrom(c) ==
    IF c = "button"
    THEN uiop' = "idle" /\ UNCHANGED fpc
    ELSE fpc' = [fpc EXCEPT ![c] = "done"] /\ UNCHANGED uiop

OnError(c, m) == [calls EXCEPT ![c].error = @ + 1, ![c].msg = m]

\* download_controller.py lines 54-56
StartCheck(c) ==
    /\ cpc[c] = "check"
    /\ IF isDownloading
       THEN /\ calls' = OnError(c, "in_progress")
            /\ cpc' = [cpc EXCEPT ![c] = "rejected"]
            /\ ReturnFrom(c)
       ELSE cpc' = [cpc EXCEPT ![c] = "validate"] /\ UNCHANGED <<calls, uiop, fpc>>
    /\ UNCHANGED <<updvars, isDownloading, videoInfo, history, historyFile, cfg, furl,
                   dpc, dloc, spc, sbuf, histOps, downloadBtn, enableQueue>>

\* download_controller.py lines 58-62, models.py lines 36-42
StartValidate(c) ==
    /\ cpc[c] = "validate"
    /\ IF ~cfg[c].valid
       THEN /\ calls' = OnError(c, "invalid")
            /\ cpc' = [cpc EXCEPT ![c] = "rejected"]
            /\ ReturnFrom(c)
       ELSE cpc' = [cpc EXCEPT ![c] = "set"] /\ UNCHANGED <<calls, uiop, fpc>>
    /\ UNCHANGED <<updvars, isDownloading, videoInfo, history, historyFile, cfg, furl,
                   dpc, dloc, spc, sbuf, histOps, downloadBtn, enableQueue>>

\* download_controller.py lines 64, 98-99: isDownloading is set and the
\* download thread started
StartThread(c) ==
    /\ cpc[c] = "set"
    /\ isDownloading' = TRUE
    /\ dpc' = [dpc EXCEPT ![c] = "begin"]
    /\ cpc' = [cpc EXCEPT ![c] = "started"]
    /\ ReturnFrom(c)
    /\ UNCHANGED <<updvars, videoInfo, history, historyFile, cfg, furl,
                   dloc, calls, spc, sbuf, histOps, downloadBtn, enableQueue>>

\* download_controller.py lines 68-69: isinstance(self.videoInfo,
\* PlaylistInfo) chooses the branch; the playlist's videos are iterated
DlBegin(c) ==
    /\ dpc[c] = "begin"
    /\ IF videoInfo # "None" /\ InfoOf(videoInfo).kind = "playlist"
       THEN dloc' = [dloc EXCEPT ![c].branch = "playlist", ![c].items = InfoOf(videoInfo).videos]
       ELSE dloc' = [dloc EXCEPT ![c].branch = "single", ![c].items = <<cfg[c].url>>]
    /\ dpc' = [dpc EXCEPT ![c] = "download"]
    /\ UNCHANGED <<updvars, isDownloading, videoInfo, history, historyFile, uiop, cpc, cfg,
                   fpc, furl, calls, spc, sbuf, histOps, downloadBtn, enableQueue>>

\* download_controller.py lines 70-76, 79-86: DownloadManager.downloadVideo,
\* which may raise
DlDownload(c) ==
    /\ dpc[c] = "download"
    /\ \E ok \in BOOLEAN :
          IF ok
          THEN /\ dpc' = [dpc EXCEPT ![c] = "add"]
               /\ dloc' = [dloc EXCEPT ![c].mediaOk = (Len(dloc[c].items) = 1)]
          ELSE dpc' = [dpc EXCEPT ![c] = "except"] /\ UNCHANGED dloc
    /\ UNCHANGED <<updvars, isDownloading, videoInfo, history, historyFile, uiop, cpc, cfg,
                   fpc, furl, calls, spc, sbuf, histOps, downloadBtn, enableQueue>>

\* download_controller.py lines 77, 87 and history_service.py lines 25-33:
\* the arguments of addEntry are evaluated (self.videoInfo.title raises
\* AttributeError on None) and the entry is put in front of the list
DlAddEntry(c) ==
    /\ dpc[c] = "add"
    /\ IF dloc[c].branch = "single" /\ videoInfo = "None"
       THEN dpc' = [dpc EXCEPT ![c] = "except"] /\ UNCHANGED <<history, spc>>
       ELSE /\ history' =
                  <<IF dloc[c].branch = "playlist"
                    THEN [title |-> <<"title", Head(dloc[c].items)>>, url |-> Head(dloc[c].items)]
                    ELSE [title |-> InfoOf(videoInfo).title, url |-> cfg[c].url]>> \o history
            /\ spc' = [spc EXCEPT ![c] = "open"]
            /\ dpc' = [dpc EXCEPT ![c] = "saving"]
    /\ UNCHANGED <<updvars, isDownloading, videoInfo, historyFile, uiop, cpc, cfg,
                   fpc, furl, dloc, calls, sbuf, histOps, downloadBtn, enableQueue>>

\* history_service.py line 22: open(self.history_file, "w") empties the file
SaveOpen(t) ==
    /\ spc[t] = "open"
    /\ historyFile' = TruncatedFile
    /\ spc' = [spc EXCEPT ![t] = "dump"]
    /\ UNCHANGED <<updvars, isDownloading, videoInfo, history, uiop, cpc, cfg,
                   fpc, furl, dpc, dloc, calls, sbuf, histOps, downloadBtn, enableQueue>>

\* history_service.py line 23: json.dump writes the list, as it is now, to
\* the buffered file object
SaveDump(t) ==
    /\ spc[t] = "dump"
    /\ sbuf' = [sbuf EXCEPT ![t] = history]
    /\ spc' = [spc EXCEPT ![t] = "close"]
    /\ UNCHANGED <<updvars, isDownloading, videoInfo, history, historyFile, uiop, cpc, cfg,
                   fpc, furl, dpc, dloc, calls, histOps, downloadBtn, enableQueue>>

\* history_service.py lines 22-23: leaving the with block flushes the buffer
\* to the file and the operation returns: to the UI thread, or to the
\* download thread, which goes on with the next video or with line 89
SaveClose(t) ==
    /\ spc[t] = "close"
    /\ historyFile' = FileOf(sbuf[t])
    /\ sbuf' = [sbuf EXCEPT ![t] = <<>>]
    /\ spc' = [spc EXCEPT ![t] = "idle"]
    /\ IF t = "ui"
       THEN uiop' = "idle" /\ UNCHANGED <<dpc, dloc>>
       ELSE /\ dloc' = [dloc EXCEPT ![t].items = Tail(@)]
            /\ dpc' = [dpc EXCEPT ![t] = IF Len(dloc[t].items) > 1 THEN "download" ELSE "notify"]
            /\ UNCHANGED uiop
    /\ UNCHANGED <<updvars, isDownloading, videoInfo, history, cpc, cfg,
                   fpc, furl, calls, histOps, downloadBtn, enableQueue>>

\* download_controller.py lines 89-90: the notification reads
\* self.videoInfo.title, then onSuccess()
DlNotify(c) ==
    /\ dpc[c] = "notify"
    /\ IF videoInfo = "None"
       THEN dpc' = [dpc EXCEPT ![c] = "except"] /\ UNCHANGED calls
       ELSE /\ calls' = [calls EXCEPT ![c].success = @ + 1]
            /\ dpc' = [dpc EXCEPT ![c] = "finally"]
    /\ UNCHANGED <<updvars, isDownloading, videoInfo, history, historyFile, uiop, cpc, cfg,
                   fpc, furl, dloc, spc, sbuf, histOps, downloadBtn, enableQueue>>

\* download_controller.py lines 91-93: the handler's notification reads
\* self.videoInfo.title too; on None it raises and onError is not reached
DlExcept(c) ==
    /\ dpc[c] = "except"
    /\ IF videoInfo = "None"
       THEN dloc' = [dloc EXCEPT ![c].raised = TRUE] /\ UNCHANGED calls
       ELSE calls' = OnError(c, "download_failed") /\ UNCHANGED dloc
    /\ dpc' = [dpc EXCEPT ![c] = "finally"]
    /\ UNCHANGED <<updvars, isDownloading, videoInfo, history, historyFile, uiop, cpc, cfg,
                   fpc, furl, spc, sbuf, histOps, downloadBtn, enableQueue>>

\* download_controller.py lines 94-96: onComplete is _onDownloadComplete
DlFinally(c) ==
    /\ dpc[c] = "finally"
    /\ isDownloading' = FALSE
    /\ calls' = [calls EXCEPT ![c].complete = @ + 1]
    /\ enableQueue' = OnDownloadComplete
    /\ dpc' = [dpc EXCEPT ![c] = "done"]
    /\ UNCHANGED <<updvars, videoInfo, history, historyFile, uiop, cpc, cfg,
                   fpc, furl, dloc, spc, sbuf, histOps, downloadBtn>>

\* the list without its (i+1)-th element: del self.history[i]
Deleted(l, i) == SubSeq(l, 1, i) \o SubSeq(l, i + 2, Len(l))

\* history_view.py line 566, download_controller.py lines 113-115,
\* history_service.py lines 39-43: removeEntry(index) on the UI thread
RemoveEntry ==
    /\ UiIdle /\ histOps < MaxHistOps
    /\ histOps' = histOps + 1
    /\ \E i \in -1..MaxIndex :
          IF 0 <= i /\ i < Len(history)
          THEN /\ history' = Deleted(history, i)
               /\ uiop' = "remove"
               /\ spc' = [spc EXCEPT !["ui"] = "open"]
          ELSE UNCHANGED <<history, uiop, spc>>
    /\ UNCHANGED <<updvars, isDownloading, videoInfo, historyFile, cpc, cfg,
                   fpc, furl, dpc, dloc, calls, sbuf, downloadBtn, enableQueue>>

\* history_view.py line 583, download_controller.py lines 117-119,
\* history_service.py lines 45-48: clearHistory on the UI thread
ClearHistory ==
    /\ UiIdle /\ histOps < MaxHistOps
    /\ histOps' = histOps + 1
    /\ history' = <<>>
    /\ uiop' = "clear"
    /\ spc' = [spc EXCEPT !["ui"] = "open"]
    /\ UNCHANGED <<updvars, isDownloading, videoInfo, historyFile, cpc, cfg,
                   fpc, furl, dpc, dloc, calls, sbuf, downloadBtn, enableQueue>>

\* the window with nothing running: no video info fetched, the history as
\* an earlier run left it
InitController ==
    /\ CheckIdle
    /\ DownloadIdle
    /\ ControllerFresh
    /\ history \in {<<>>, <<OldEntry>>}
    /\ historyFile = FileOf(history)

\* the steps of the startDownload call c and of the download thread it starts
DownloadNext(c) ==
    \/ StartCheck(c) \/ StartValidate(c) \/ StartThread(c)
    \/ DlBegin(c) \/ DlDownload(c) \/ DlAddEntry(c)
    \/ SaveOpen(c) \/ SaveDump(c) \/ SaveClose(c)
    \/ DlNotify(c) \/ DlExcept(c) \/ DlFinally(c)

\* fetching and downloading with one re-download: the buttons, the fetch
\* threads, the calls of startDownload and the download threads
ControllerNext ==
    \/ FetchClicked
    \/ ReDownload("redownload1")
    \/ DownloadClicked
    \/ EnableButton
    \/ \E f \in {"fetch", "redownload1"} : FetchGet(f) \/ FetchSuccess(f)
    \/ \E c \in {"button", "redownload1"} : DownloadNext(c)

SpecController == InitController /\ [][ControllerNext]_vars

\* two re-downloads asked for one after the other in the history window
RedownloadNext ==
    \/ \E r \in Redownloads : ReDownload(r) \/ FetchGet(r) \/ FetchSuccess(r) \/ DownloadNext(r)
    \/ EnableButton

SpecRedownloads == InitController /\ [][RedownloadNext]_vars

\* the window after a fetch of a video's info, the history window open
InitHistory ==
    /\ CheckIdle
    /\ DownloadIdle
    /\ isDownloading = FALSE
    /\ uiop = "idle" /\ histOps = 0
    /\ downloadBtn = TRUE /\ enableQueue = 0
    /\ cpc = [c \in Callers |-> "idle"]
    /\ cfg = [c \in Callers |-> NoConfig]
    /\ \E u \in VideoUrls :
          /\ videoInfo = u
          /\ furl = [f \in Fetchers |-> IF f = "fetch" THEN u ELSE "None"]
    /\ fpc = [f \in Fetchers |-> IF f = "fetch" THEN "done" ELSE "idle"]
    /\ dpc = [c \in Callers |-> "none"]
    /\ dloc = [c \in Callers |-> NoLocals]
    /\ calls = [c \in Callers |-> NoCalls]
    /\ spc = [t \in HistThreads |-> "idle"]
    /\ sbuf = [t \in HistThreads |-> <<>>]
    /\ history \in {<<>>, <<OldEntry>>}
    /\ historyFile = FileOf(history)

\* a download from the button whose thread adds its entry while the UI
\* thread removes entries and clears the history
HistoryNext ==
    \/ DownloadClicked
    \/ DownloadNext("button")
    \/ EnableButton
    \/ RemoveEntry
    \/ ClearHistory
    \/ SaveOpen("ui") \/ SaveDump("ui") \/ SaveClose("ui")

SpecHistory == InitHistory /\ [][HistoryNext]_vars

-----------------------------------------------------------------------------
(* Properties of checkForUpdates (checked under SpecCheck) *)

\* major.minor.patch ordering on triples of numbers
SemverGreater(b, a) ==
    \/ b[1] > a[1]
    \/ b[1] = a[1] /\ b[2] > a[2]
    \/ b[1] = a[1] /\ b[2] = a[2] /\ b[3] > a[3]

\* the manifest was fetched (200, a JSON object)
ManifestFetched == response.net = "ok" /\ response.status = 200 /\ response.body.json = "object"

\* the numbers a "major.minor.patch" string was written from
TripleOf == [s \in VersionStrings |-> CHOOSE t \in Triples : FormatVersion(t) = s]

\* C1: when the manifest is fetched with both fields present, the call reports
\* available iff latest > current in numeric major.minor.patch order, and then
\* returns the manifest's version and url.
C1_SemverOrdering ==
    ( /\ ckpc = "returned"
      /\ ManifestFetched
      /\ currentVersion \in VersionStrings
      /\ response.body.latest_version \in VersionStrings
      /\ response.body.download_url # None )
    => /\ result.available <=>
              SemverGreater(TripleOf[response.body.latest_version], TripleOf[currentVersion])
       /\ result.available =>
              /\ result.version = response.body.latest_version
              /\ result.url = response.body.download_url

\* C1 witness: 1.10.0 against 1.9.0 is reported available (string order says otherwise)
C1_Witness ==
    /\ ckpc = "returned"
    /\ result.available
    /\ currentVersion = FormatVersion(<<1, 9, 0>>)
    /\ result.version = FormatVersion(<<1, 10, 0>>)
    /\ StrGreater(currentVersion, result.version)

\* the version check failed: transport error, non-200 status, a body that is not
\* a JSON object, or a version string that cannot be parsed
CheckFailed ==
    \/ response.net # "ok"
    \/ response.status # 200
    \/ response.body.json # "object"
    \/ /\ response.body.latest_version \in InvalidVersionStrings \ {<<>>}
    \/ /\ Truthy(response.body.latest_version)
       /\ currentVersion \in InvalidVersionStrings

\* C2: no exception ever leaves checkForUpdates, and every failed check
\* returns (False, None, None).
C2_NeverRaises ==
    /\ ckpc # "raised"
    /\ (ckpc = "returned" /\ CheckFailed) => result = NotAvailable

\* C2 witness: a malformed JSON body was received and the call returned
C2_Witness ==
    /\ ckpc = "returned"
    /\ response.net = "ok" /\ response.status = 200
    /\ response.body.json = "malformed"
    /\ result = NotAvailable

\* C3 (as claimed): a manifest lacking latest_version or download_url is never
\* reported as an available update.
C3_MissingFieldNotAvailable ==
    ( /\ ckpc = "returned"
      /\ ManifestFetched
      /\ (response.body.latest_version = None \/ response.body.download_url = None) )
    => ~result.available /\ result = NotAvailable

-----------------------------------------------------------------------------
(* Properties of the download task (checked under Spec) *)

\* the stream is over after fewer bytes than the content-length advertised
Truncated == stream \in {"ended", "broken"} /\ totalSize > 0 /\ downloaded < totalSize

DownloadErrorReported == errorCalls > 0 /\ errorMsg \in {"update_failed", "incomplete"}

DownloadSucceeded == pc \in {"complete", "launch", "exit", "exited"}

\* C6: the fractions passed to onProgress never exceed 1 and never decrease,
\* and when a download with an advertised content-length succeeds the last
\* fraction reported is exactly 1.
C6_ProgressMonotone ==
    /\ \A i \in 1..Len(progressLog) : progressLog[i].num <= progressLog[i].den
    /\ \A i \in 1..(Len(progressLog) - 1) :
           progressLog[i].num * progressLog[i + 1].den
               <= progressLog[i + 1].num * progressLog[i].den
    /\ (DownloadSucceeded /\ progressCallback /\ totalSize > 0) =>
           /\ progressLog # <<>>
           /\ progressLog[Len(progressLog)].num = progressLog[Len(progressLog)].den

\* C6 witness: onComplete after two progress reports, the first below 1
C6_Witness ==
    /\ completeCalls = 1
    /\ Len(progressLog) = 2
    /\ progressLog[1].num < progressLog[1].den
    /\ progressLog[2].num = progressLog[2].den

\* C7: whenever the Updater has been launched (or the launch attempted) the
\* stream has ended, the staging file is closed, the integrity check has
\* passed, onComplete has been invoked (if supplied) and onError has not.
C7_LaunchAfterVerifiedDownload ==
    (popenCalls > 0 \/ launched # "None" \/ upc # "none") =>
        /\ popenCalls = 1
        /\ stream = "ended" /\ ~fileOpen
        /\ totalSize > 0 => downloaded = totalSize
        /\ completedCallback => completeCalls = 1
        /\ errorCalls = 0

\* C7 witness: the Updater runs after a download of the advertised length
C7_Witness ==
    /\ launched = "temp" /\ upc = "wait"
    /\ totalSize > 0 /\ downloaded = totalSize /\ completeCalls = 1

\* C8 (as claimed): a file installed at oldExecutablePath from the staging
\* file holds every byte of the new binary.
C8_OnlyCompleteBinaryInstalled ==
    oldExe.origin = "download" => oldExe.bytes = SeqSum(body)

\* the task cannot self-update: not a frozen build, or no updater.exe
EnvironmentError == ~frozen \/ updaterAt = {}

\* C9: from a non-frozen run, or with no updater executable at either
\* location, the task makes no request, leaves the staging path as it was,
\* copies and launches nothing, does not end the Primary, and returns after
\* invoking onError (if supplied) with the message of that case.
C9_EnvironmentErrorFailsFast ==
    EnvironmentError =>
        /\ pc \in {"start", "locate", "returned"}
        /\ requests = 0
        /\ staging \in {NoFile, StaleFile}
        /\ safeUpdater = "None" /\ popenCalls = 0 /\ launched = "None" /\ upc = "none"
        /\ primaryAlive
        /\ completeCalls = 0 /\ progressLog = <<>>
        /\ (pc = "returned" /\ errorCallback) =>
               /\ errorCalls = 1
               /\ errorMsg = IF ~frozen THEN "dev_environment" ELSE "updater_not_found"

\* C9 witness: a frozen build without updater.exe returned through onError
C9_Witness ==
    /\ frozen /\ updaterAt = {}
    /\ pc = "returned" /\ errorCalls = 1 /\ errorMsg = "updater_not_found"

\* C10: once _launchUpdater is entered the Primary ends, whether or not the
\* Updater could be started, and control never goes back to the caller.
C10_PrimaryExitsAfterHandoff ==
    /\ (pc = "launch") ~> (pc = "exited" /\ ~primaryAlive)
    /\ [][(pc \in {"launch", "exit", "exited"}) => (pc' \in {"launch", "exit", "exited"})]_vars

\* C10 witness: Popen failed, and the Primary has ended all the same
C10_Witness ==
    /\ pc = "exited" /\ ~primaryAlive
    /\ popenCalls = 1 /\ launched = "None"


----------------------------------------------------------------------------
\* Properties of the Updater

\* C11: when every one of the MaxAttempts delete attempts is denied, the
\* Updater gives up: it ends in TimedOut with its window closed, has called
\* neither shutil.move nor os.startfile, and the old binary and the staged
\* file are where they were.
C11_LockedBudgetTimesOut ==
    /\ attempts = MaxAttempts => upc \in {"timeout", "TimedOut"}
    /\ upc \in {"timeout", "TimedOut"} =>
          /\ attempts = MaxAttempts /\ lastDelete = "PermissionError"
          /\ moveCalls = 0 /\ startfileCalls = 0 /\ ~relaunched
          /\ oldExe = OldBinary
          /\ staging.exists /\ staging.origin = "download"
    /\ upc = "TimedOut" => closed /\ exitCode = 0

C11_Witness ==
    upc = "TimedOut" /\ attempts = MaxAttempts /\ oldExe = OldBinary /\ moveCalls = 0

Terminated == upc \in {"TimedOut", "InstallFailed", "Done", "crashed"}

\* C12 as stated: an Updater whose delete succeeded has, when it ends, moved
\* the staged file onto the old path and called os.startfile.
C12_ReleasedLockInstalls ==
    (lastDelete = "ok" /\ Terminated) =>
        (oldExe.exists /\ oldExe.origin = "download" /\ startfileCalls = 1)

\* C12, amended: the Updater keeps trying as long as fewer than MaxAttempts
\* deletes were denied, and once a delete has succeeded it eventually calls
\* shutil.move; then either the move failed and it ends in InstallFailed, or
\* the staged file is on the old path, os.startfile was called and it ends
\* in Done.
C12_ReleasedLockReachesMove ==
    /\ []((lastDelete = "PermissionError" /\ attempts < MaxAttempts) => upc = "wait")
    /\ (lastDelete = "ok") ~>
          /\ moveCalls = 1
          /\ \/ upc = "InstallFailed" /\ startfileCalls = 0
             \/ /\ upc = "Done" /\ startfileCalls = 1
                /\ oldExe.exists /\ oldExe.origin = "download" /\ ~staging.exists

C12_Witness ==
    /\ upc = "Done" /\ lastDelete = "ok" /\ attempts = MaxAttempts - 1
    /\ startfileCalls = 1 /\ oldExe.origin = "download"

\* C13: shutil.move is called only when the last delete attempt succeeded
\* and no file is at the old path; the Updater is about to move only then.
C13_MoveOnlyAfterRemoval ==
    /\ [](upc = "install" => (~oldExe.exists /\ lastDelete = "ok"))
    /\ [][(moveCalls' # moveCalls) => (~oldExe.exists /\ lastDelete = "ok")]_vars

C13_Witness ==
    moveCalls = 1 /\ attempts > 0 /\ lastDelete = "ok" /\ upc = "relaunch"

\* C14: a failed move ends the Updater in InstallFailed: one call of
\* shutil.move, none of os.startfile, the window closed, nothing left to do,
\* and no file at the old path.
C14_FailedMoveIsTerminal ==
    /\ (moveCalls > 0 /\ ~oldExe.exists) => upc = "InstallFailed"
    /\ upc = "InstallFailed" =>
          /\ moveCalls = 1 /\ startfileCalls = 0 /\ ~relaunched
          /\ closed /\ exitCode = 0
          /\ ~oldExe.exists
          /\ ~ENABLED UpdaterNext

C14_Witness ==
    upc = "InstallFailed" /\ staging.exists /\ ~oldExe.exists /\ closed

\* C15: when os.startfile fails the Updater still ends in Done with its
\* window closed, and the new binary is at the old path.
C15_FailedRelaunchStillDone ==
    (startfileCalls = 1 /\ ~relaunched) =>
        /\ upc = "Done" /\ closed /\ exitCode = 0
        /\ oldExe.exists /\ oldExe.origin = "download"

C15_Witness ==
    upc = "Done" /\ startfileCalls = 1 /\ ~relaunched /\ oldExe.origin = "download"

\* C16: after download, handoff, install and relaunch the file at the old
\* path is the file the download staged, with the bytes the download wrote,
\* and nothing is at the staging path.
C16_InstalledIsStaged ==
    upc \in {"relaunch", "Done"} =>
        /\ oldExe = [exists |-> TRUE, origin |-> "download", bytes |-> downloaded]
        /\ staging = NoFile

C16_Witness ==
    /\ pc = "exited" /\ upc = "Done" /\ relaunched
    /\ body # <<>> /\ oldExe.bytes = SeqSum(body) /\ ~staging.exists

\* C17: started with an argument count other than two, the Updater leaves
\* with exit code 1 and has deleted, moved and launched nothing.
C17_UsageError ==
    /\ []((argc # 2 /\ upc # "main") =>
             /\ upc = "usage" /\ exitCode = 1 /\ ~closed
             /\ attempts = 0 /\ lastDelete = "none"
             /\ moveCalls = 0 /\ startfileCalls = 0)
    /\ [][(argc # 2) => UNCHANGED <<oldExe, staging, relaunched>>]_vars

C17_Witness ==
    upc = "usage" /\ argc = 3 /\ exitCode = 1 /\ oldExe = OldBinary /\ staging.exists


----------------------------------------------------------------------------
\* Properties of the window and of the Primary as a whole

\* download tasks started from the window that have not ended
ActiveTasks ==
    IF tasksStarted > 0 /\ pc \in {"returned", "exited"} THEN tasksStarted - 1
    ELSE tasksStarted

\* C18: whatever the check finds and however often the button is clicked,
\* the window starts at most one download task, so that no two run at once.
C18_SingleUpdateSession ==
    /\ tasksStarted <= 1 /\ ActiveTasks <= 1
    /\ (pc # "idle") => tasksStarted = 1
    /\ checkThreads <= 1

C18_Witness ==
    tasksStarted = 1 /\ updateBtn = "disabled" /\ pc = "stream" /\ ActiveTasks = 1


\* the download task is over without an Updater having been started
PrimaryFailed == pc \in {"returned", "exited"} /\ launched = "None"

\* C19: a download task that ended without starting the Updater has invoked
\* the error callback it was given.
C19_FailuresReachOnError ==
    (PrimaryFailed /\ errorCallback) => errorCalls >= 1

\* an update attempt has reached one of its ends
UpdateAttemptOver == PrimaryFailed \/ upc \in {"TimedOut", "InstallFailed", "Done"}

\* C20: when an update attempt is over no file staged by its download is at
\* the staging path (read for the runs in which no delete of the Primary
\* was refused).
C20_NoStagingOutlivesAttempt ==
    (UpdateAttemptOver /\ ~removeFailed) =>
        ~(staging.exists /\ staging.origin = "download")


\* C21: subprocess.Popen is called only after the updater was copied to the
\* temp directory, and the process it starts is that copy, wherever the
\* updater was found.
C21_TempCopyBeforeLaunch ==
    /\ [](launched # "None" =>
             (launched = "temp" /\ safeUpdater # "None" /\ safeUpdater = updaterPath))
    /\ [][(popenCalls' # popenCalls) => (safeUpdater # "None")]_vars

C21_Witness ==
    launched = "temp" /\ updaterPath = "meipass" /\ safeUpdater = "meipass" /\ popenCalls = 1


\* C22: an Updater started with two arguments that has nothing left to do
\* is in Done, TimedOut or InstallFailed and has closed its window.
C22_UpdaterTerminates ==
    (argc = 2 /\ upc # "main" /\ ~ENABLED UpdaterNext) =>
        (upc \in {"Done", "TimedOut", "InstallFailed"} /\ closed)

\* the download task is over
TaskOver == pc \in {"returned", "exited"}

\* C23: a download task given its callbacks ends in exactly one of two ways:
\* one call of the error callback, none of the completion callback and no
\* Updater started; or one call of the completion callback, none of the
\* error callback and the Updater started.  No progress is reported after
\* either callback.
C23_ExactlyOneOutcome ==
    /\ []((TaskOver /\ completedCallback /\ errorCallback) =>
             \/ errorCalls = 1 /\ completeCalls = 0 /\ launched = "None" /\ popenCalls = 0
             \/ errorCalls = 0 /\ completeCalls = 1 /\ launched # "None")
    /\ [][(errorCalls + completeCalls > 0) => (progressLog' = progressLog)]_vars

\* C24: no step of the download task changes the file at the old path, so
\* that until an Updater runs, and after every failure of the Primary, the
\* old binary is the one that was there.
C24_PrimaryLeavesOldExe ==
    /\ []((upc \in {"none", "main"} \/ PrimaryFailed) => oldExe = OldBinary)
    /\ [][PrimaryNext => (oldExe' = oldExe)]_vars

C24_Witness ==
    /\ PrimaryFailed /\ errorMsg = "update_failed" /\ downloaded > 0
    /\ oldExe = OldBinary /\ ~staging.exists


----------------------------------------------------------------------------
\* Properties of DownloadController and HistoryService

\* the download threads that have started and not ended
ActiveDownloads == {c \in Callers : dpc[c] \notin {"none", "done"}}

\* C25: at most one download thread is active, and a call that finds a
\* download in progress is answered with onError and starts no thread.
C25_OneDownloadThread ==
    /\ Cardinality(ActiveDownloads) <= 1
    /\ \A c \in Callers :
          calls[c].msg = "in_progress" => (cpc[c] = "rejected" /\ dpc[c] = "none")

\* the call of startDownload by c is over, with the thread it started
CallOver(c) == cpc[c] = "rejected" \/ (cpc[c] = "started" /\ dpc[c] = "done")

\* C26: every call of startDownload that is over has invoked onComplete
\* exactly once, and when all calls are over isDownloading is False.
C26_OnCompleteOnce ==
    /\ \A c \in Callers : CallOver(c) => calls[c].complete = 1
    /\ (\A c \in Callers : cpc[c] \in {"idle", "refused"} \/ CallOver(c)) => ~isDownloading

\* C27: a download thread that has ended has invoked exactly one of
\* onSuccess and onError, and onSuccess exactly when every media download
\* of the thread succeeded.
C27_SuccessOrError ==
    \A c \in Callers :
        dpc[c] = "done" =>
            /\ calls[c].success + calls[c].error = 1
            /\ calls[c].success = 1 <=> dloc[c].mediaOk

\* C28: a single-video download started with the info of its url loaded
\* records an entry with the title of the video at that url.
C28_HistoryTitleOfDownloadedUrl ==
    [][\A c \in Callers :
          (/\ dpc[c] = "add" /\ dpc'[c] = "saving"
           /\ dloc[c].branch = "single"
           /\ cfg[c].url \in VideoUrls /\ cfg[c].info = cfg[c].url)
          => (Head(history').url = cfg[c].url /\ Head(history').title = <<"title", cfg[c].url>>)]_vars

\* no HistoryService operation is in progress
Quiescent == \A t \in HistThreads : spc[t] = "idle"

\* C29: when no HistoryService operation is in progress history.json holds
\* the list in memory.
C29_FileEqualsMemory ==
    Quiescent => historyFile = FileOf(history)

============================================================================
